---- MODULE Spec2Model ----
(***************************************************************************)
(* NovaVoice AI: the account / quota / catalog / subscription state        *)
(* machine of src/app.py (the FastAPI handlers over the sqlite store).     *)
(*                                                                         *)
(* The committed database is the four tables users, voices, audio_history  *)
(* and payments.  Row ids are AUTOINCREMENT ids, so a table is a sequence  *)
(* and a row's id is its index.  Every handler opens its own connection;   *)
(* a handler that is between two statements is a request slot with a       *)
(* program counter pc[r] and its local variables loc[r].                   *)
(* Money is kept in cents (9.99 is 999).  Dates are day numbers.           *)
(***************************************************************************)
EXTENDS Integers, Sequences, FiniteSets, TLC

VARIABLES users, voices, audio_history, payments, today, rate, leak, pc, loc, last

vars == <<users, voices, audio_history, payments, today, rate, leak, pc, loc, last>>

----------------------------------------------------------------------------
(* Bounds of the exploration *)
MaxCloned == 1
MaxHistory == 1
MaxPayments == 1
QuotaHistory == 11
BillingPayments == 2
MaxDay == 1
MaxReqs == 2
MaxRate == 4

(* Program constants *)
NumPresets == 5
DefaultGenerations == 10
TermDays == 30
(* the speaking rate of the engine after pyttsx3.init(), taken as the unit *)
InitialRate == 1

(* SQL NULL and Python None: 0 in the integer columns (row ids, keys and    *)
(* dates start at 1 or later), the empty string in the text columns.       *)
NULL == 0
NoText == ""

Reqs == 1..MaxReqs
Uuids == {1, 2}
Usernames == {"ann", "bob"}
Emails == {"a@x", "b@x"}
Passwords == {"pw", "no"}
TierNames == {"Basic", "Premium", "Ultimate", "Gold"}
VoiceIds == {1, NumPresets + 1, NumPresets + MaxCloned + 1}
Texts == {"hello"}
Settings == {[speed |-> 1, pitch |-> 1, emotion |-> "neutral"],
             [speed |-> 2, pitch |-> 1, emotion |-> "happy"]}
(* payment_details: a dict that may or may not hold a card_number, and    *)
(* holds other details of the card (the cvv)                               *)
NoCard == [present |-> FALSE, card_number |-> <<>>, cvv |-> <<>>]
LongCard == [present |-> TRUE, card_number |-> <<4, 1, 1, 1, 2, 3>>, cvv |-> <<7, 7, 7>>]
ShortCard == [present |-> TRUE, card_number |-> <<1, 2, 3>>, cvv |-> <<7, 7, 7>>]
Cards == {NoCard, LongCard, ShortCard}

----------------------------------------------------------------------------
(* Rows *)
PresetRow == [user_id |-> NULL, voice_type |-> "preset"]

NoUser == [id |-> NULL, tier |-> NoText, left |-> 0]
NoUpdate == [tier |-> NoText, expiry |-> NULL, left |-> 0]
NoPayment == [user_id |-> NULL, tier |-> NoText, amount |-> 0,
              payment_method |-> <<>>, transaction_id |-> NULL]
NoSettings == [speed |-> 0, pitch |-> 0, emotion |-> NoText]
IdleLoc == [user |-> NoUser, voice_id |-> NULL, text |-> NoText, settings |-> NoSettings,
            tier |-> NoText, card |-> NoCard, upd |-> NoUpdate, ins |-> NoPayment]

(* The response of the handler that returned last: the operation, the      *)
(* api key or account id it was called with, the HTTP status, the ids of   *)
(* the rows it returned, and the detail text of an error.                  *)
NoResponse == [op |-> "none", arg |-> NULL, status |-> 0, body |-> {}, detail |-> NoText]
Response(op, arg, status, body) ==
    [op |-> op, arg |-> arg, status |-> status, body |-> body, detail |-> NoText]

(* raise HTTPException(status_code, detail): the response of a handler     *)
(* that refuses the request                                                *)
HTTPException(op, arg, status, detail) ==
    [op |-> op, arg |-> arg, status |-> status, body |-> {}, detail |-> detail]

(* Mutant: the preset voices are inserted without the count *)
init_db_always_seeds(v) == v \o [i \in 1..NumPresets |-> PresetRow]

(* init_db: the preset voices are inserted when no row of type preset exists *)
init_db(v) ==
    IF Cardinality({i \in DOMAIN v : v[i].voice_type = "preset"}) = 0
    THEN v \o [i \in 1..NumPresets |-> PresetRow]
    ELSE v

(* hashlib.sha256(password.encode()).hexdigest(): the digest of a password, *)
(* different for different passwords                                       *)
hash_password(password) == <<"sha256", password>>

verify_password(stored_password_hash, provided_password) ==
    stored_password_hash = hash_password(provided_password)

(* uuid.uuid4(): a random identifier; any value of the space may come out *)
uuid4 == Uuids

(* The identifiers that uuid4() can give when those of `used` were given   *)
(* before: one of them again, or a new one; the new one is the first       *)
(* unused value, since the values are interchangeable.                     *)
Fresh(used) == {k \in uuid4 : \A j \in uuid4 : j < k => j \in used}

----------------------------------------------------------------------------
(* Mutant: the limit is checked with < instead of <= *)
get_current_user_by_api_key_off_by_one(api_key) ==
    LET ids == {i \in DOMAIN users : users[i].api_key = api_key}
    IN  IF ids = {}
        THEN [status |-> 401, detail |-> "Invalid API Key", user |-> NoUser]
        ELSE LET i == CHOOSE i \in ids : TRUE
             IN  IF users[i].subscription_tier = "Basic"
                    /\ users[i].daily_generations_left < 0
                 THEN [status |-> 403, user |-> NoUser,
                       detail |-> "Daily generation limit reached for Basic tier."]
                 ELSE [status |-> 200, detail |-> NoText,
                       user |-> [id |-> i,
                                 tier |-> users[i].subscription_tier,
                                 left |-> users[i].daily_generations_left]]

(* Mutant: an account whose subscription has expired is refused *)
get_current_user_by_api_key_expiry(api_key) ==
    LET ids == {i \in DOMAIN users : users[i].api_key = api_key}
    IN  IF ids = {}
        THEN [status |-> 401, detail |-> "Invalid API Key", user |-> NoUser]
        ELSE LET i == CHOOSE i \in ids : TRUE
             IN  IF \/ /\ users[i].subscription_tier = "Basic"
                       /\ users[i].daily_generations_left <= 0
                    \/ /\ users[i].subscription_expiry # NULL
                       /\ users[i].subscription_expiry < today
                 THEN [status |-> 403, user |-> NoUser,
                       detail |-> "Daily generation limit reached for Basic tier."]
                 ELSE [status |-> 200, detail |-> NoText,
                       user |-> [id |-> i,
                                 tier |-> users[i].subscription_tier,
                                 left |-> users[i].daily_generations_left]]

(* get_current_user_by_api_key: 401 for an unknown key, 403 for a Basic    *)
(* account with no generations left, otherwise the row that was read.      *)
get_current_user_by_api_key(api_key) ==
    LET ids == {i \in DOMAIN users : users[i].api_key = api_key}
    IN  IF ids = {}
        THEN [status |-> 401, detail |-> "Invalid API Key", user |-> NoUser]
        ELSE LET i == CHOOSE i \in ids : TRUE
             IN  IF users[i].subscription_tier = "Basic"
                    /\ users[i].daily_generations_left <= 0
                 THEN [status |-> 403, user |-> NoUser,
                       detail |-> "Daily generation limit reached for Basic tier."]
                 ELSE [status |-> 200, detail |-> NoText,
                       user |-> [id |-> i,
                                 tier |-> users[i].subscription_tier,
                                 left |-> users[i].daily_generations_left]]

----------------------------------------------------------------------------
Init ==
    /\ users = <<>>
    /\ voices = init_db(<<>>)
    /\ audio_history = <<>>
    /\ payments = <<>>
    /\ today = 0
    /\ rate = InitialRate
    /\ leak = "none"
    /\ pc = [r \in Reqs |-> "idle"]
    /\ loc = [r \in Reqs |-> IdleLoc]
    /\ last = NoResponse

(* sqlite: a connection with uncommitted writes holds the write lock; the  *)
(* other connections read the committed rows and cannot write.  The lock   *)
(* belongs to the connection: it is held by a request between its UPDATE   *)
(* and its commit, and by a connection that a failed request left open     *)
(* (leak).  After a commit that failed the connection holds a pending lock, *)
(* and the other connections cannot read either.                           *)
WriteLocked(r) ==
    \/ leak # "none"
    \/ \E q \in Reqs \ {r} : pc[q] \in {"sub_insert", "sub_commit"}

ReadLocked == leak = "pending"

(* The script is started again: init_db() runs on the store as it is, and  *)
(* pyttsx3.init() makes a new engine.  No request is in flight, the new    *)
(* server has answered no request yet, and the connections of the old      *)
(* process are gone.                                                       *)
restart ==
    /\ \A r \in Reqs : pc[r] = "idle"
    /\ voices' = init_db(voices)
    /\ rate' = InitialRate
    /\ leak' = "none"
    /\ last' = NoResponse
    /\ UNCHANGED <<users, audio_history, payments, today, pc, loc>>

(* A connection that a handler left open (handle_subscription and          *)
(* generate_speech close theirs on the paths that return, 443, 470, 317,   *)
(* 325, 378, and have no finally) is freed when the collector of the       *)
(* runtime gets to it: its transaction is rolled back and its lock goes.   *)
collect ==
    /\ leak # "none"
    /\ leak' = "none"
    /\ UNCHANGED <<users, voices, audio_history, payments, today, rate, pc, loc, last>>

(* Mutant: a new day gives the Basic accounts their generations back *)
Tick_daily_reset ==
    /\ today < MaxDay
    /\ today' = today + 1
    /\ users' = [i \in DOMAIN users |->
                    IF users[i].subscription_tier = "Basic"
                    THEN [users[i] EXCEPT !.daily_generations_left = DefaultGenerations]
                    ELSE users[i]]
    /\ UNCHANGED <<voices, audio_history, payments, rate, leak, pc, loc, last>>

(* The clock: more than a subscription term goes by *)
Lapse ==
    /\ today < MaxDay * (TermDays + 1)
    /\ today' = today + TermDays + 1
    /\ UNCHANGED <<users, voices, audio_history, payments, rate, leak, pc, loc, last>>

(* The clock: date.today() moves on *)
Tick ==
    /\ today < MaxDay
    /\ today' = today + 1
    /\ UNCHANGED <<users, voices, audio_history, payments, rate, leak, pc, loc, last>>

Finish(r, resp) ==
    /\ pc' = [pc EXCEPT ![r] = "idle"]
    /\ loc' = [loc EXCEPT ![r] = IdleLoc]
    /\ last' = resp

(* Mutant: email is not declared UNIQUE *)
UsersIntegrityError_no_email(username, email, api_key) ==
    \E i \in DOMAIN users :
        \/ users[i].username = username
        \/ users[i].api_key = api_key

(* sqlite: the UNIQUE constraints of the users table *)
UsersIntegrityError(username, email, api_key) ==
    \E i \in DOMAIN users :
        \/ users[i].username = username
        \/ users[i].email = email
        \/ users[i].api_key = api_key

(* POST /register, lines 256-265: the INSERT and its commit; the INSERT    *)
(* needs the write lock, and raises IntegrityError for a taken value       *)
register_user(r, username, email, password, api_key) ==
    /\ pc[r] = "idle"
    /\ ~ReadLocked
    /\ ~WriteLocked(r)
    /\ IF UsersIntegrityError(username, email, api_key)
       THEN /\ Finish(r, HTTPException("register", NULL, 400,
                                        "Username or email already exists"))
            /\ UNCHANGED <<users, voices, audio_history, payments, today, leak, rate>>
       ELSE /\ users' = Append(users,
                    [username |-> username, email |-> email, api_key |-> api_key,
                     password_hash |-> hash_password(password),
                     subscription_tier |-> "Basic", subscription_expiry |-> NULL,
                     daily_generations_left |-> DefaultGenerations])
            /\ pc' = [pc EXCEPT ![r] = "reg_reply"]
            /\ loc' = [loc EXCEPT ![r] = [IdleLoc EXCEPT !.user.id = Len(users) + 1]]
            /\ UNCHANGED <<voices, audio_history, payments, today, leak, rate, last>>

(* lines 266-267: the new row is read back and returned *)
register_user_reply(r) ==
    /\ pc[r] = "reg_reply"
    /\ ~ReadLocked
    /\ Finish(r, Response("register", NULL, 200, {loc[r].user.id}))
    /\ UNCHANGED <<users, voices, audio_history, payments, today, leak, rate>>

(* POST /login *)
login_user(r, email, password) ==
    /\ pc[r] = "idle"
    /\ ~ReadLocked
    /\ LET ids == {i \in DOMAIN users : users[i].email = email}
       IN  IF ids = {} \/ \A i \in ids : ~verify_password(users[i].password_hash, password)
           THEN Finish(r, HTTPException("login", NULL, 401, "Invalid email or password"))
           ELSE Finish(r, Response("login", NULL, 200, ids))
    /\ UNCHANGED <<users, voices, audio_history, payments, today, leak, rate>>

----------------------------------------------------------------------------
(* Mutant: the owner is not part of the WHERE clause *)
list_voices_query_any_owner(user_api_key) ==
    LET ids == IF user_api_key # NULL
               THEN {i \in DOMAIN users : users[i].api_key = user_api_key}
               ELSE {}
        user_id == IF ids = {} THEN NULL ELSE CHOOSE i \in ids : TRUE
    IN  {v \in DOMAIN voices :
            \/ voices[v].voice_type = "preset"
            \/ /\ user_id # NULL
               /\ voices[v].voice_type \in {"cloned", "designed"}}

(* Mutant: the private voices are added whether or not the key resolved *)
list_voices_query_no_guard(user_api_key) ==
    LET ids == IF user_api_key # NULL
               THEN {i \in DOMAIN users : users[i].api_key = user_api_key}
               ELSE {}
        user_id == IF ids = {} THEN NULL ELSE CHOOSE i \in ids : TRUE
    IN  {v \in DOMAIN voices :
            \/ voices[v].voice_type = "preset"
            \/ /\ (user_id = NULL \/ voices[v].user_id = user_id)
               /\ voices[v].voice_type \in {"cloned", "designed"}}

(* GET /voices: the presets, and for a key that resolves to an account the *)
(* cloned and designed voices of that account.                             *)
list_voices_query(user_api_key) ==
    LET ids == IF user_api_key # NULL
               THEN {i \in DOMAIN users : users[i].api_key = user_api_key}
               ELSE {}
        user_id == IF ids = {} THEN NULL ELSE CHOOSE i \in ids : TRUE
    IN  {v \in DOMAIN voices :
            \/ voices[v].voice_type = "preset"
            \/ /\ user_id # NULL
               /\ voices[v].user_id = user_id
               /\ voices[v].voice_type \in {"cloned", "designed"}}

list_voices(r, user_api_key) ==
    /\ pc[r] = "idle"
    /\ ~ReadLocked
    /\ Finish(r, Response("voices", user_api_key, 200, list_voices_query(user_api_key)))
    /\ UNCHANGED <<users, voices, audio_history, payments, today, leak, rate>>

----------------------------------------------------------------------------
KeyOf(id) == users[id].api_key

(* POST /tts/generate, line 312: authenticate and check the limit *)
generate_speech_begin(r, api_key, voice_id, text, settings) ==
    /\ pc[r] = "idle"
    /\ ~ReadLocked
    /\ LET auth == get_current_user_by_api_key(api_key)
       IN  IF auth.status # 200
           THEN Finish(r, HTTPException("generate", api_key, auth.status, auth.detail))
           ELSE /\ pc' = [pc EXCEPT ![r] = "gen_update"]
                /\ loc' = [loc EXCEPT ![r] = [IdleLoc EXCEPT !.user = auth.user,
                                                !.voice_id = voice_id,
                                                !.text = text,
                                                !.settings = settings]]
                /\ UNCHANGED last
    /\ UNCHANGED <<users, voices, audio_history, payments, today, leak, rate>>

(* Mutant: the generation count is updated whatever the tier *)
generate_speech_update_any_tier(r) ==
    /\ pc[r] = "gen_update"
    /\ ~ReadLocked
    /\ IF loc[r].voice_id \notin DOMAIN voices
       THEN /\ Finish(r, HTTPException("generate", KeyOf(loc[r].user.id), 404,
                                        "Voice not found"))
            /\ UNCHANGED users
       ELSE /\ ~WriteLocked(r)
            /\ users' = [users EXCEPT ![loc[r].user.id].daily_generations_left = @ - 1]
            /\ pc' = [pc EXCEPT ![r] = "gen_synth"]
            /\ UNCHANGED <<loc, last>>
    /\ UNCHANGED <<voices, audio_history, payments, today, leak, rate>>

(* Mutant: the generation count is updated unless the tier is a paid one *)
generate_speech_update_unless_paid(r) ==
    /\ pc[r] = "gen_update"
    /\ ~ReadLocked
    /\ IF loc[r].voice_id \notin DOMAIN voices
       THEN /\ Finish(r, HTTPException("generate", KeyOf(loc[r].user.id), 404,
                                        "Voice not found"))
            /\ UNCHANGED users
       ELSE /\ IF loc[r].user.tier \notin {"Premium", "Ultimate"}
               THEN /\ ~WriteLocked(r)
                    /\ users' = [users EXCEPT ![loc[r].user.id].daily_generations_left = @ - 1]
               ELSE UNCHANGED users
            /\ pc' = [pc EXCEPT ![r] = "gen_synth"]
            /\ UNCHANGED <<loc, last>>
    /\ UNCHANGED <<voices, audio_history, payments, today, leak, rate>>

(* Mutant: the voice is not looked up *)
generate_speech_update_no_lookup(r) ==
    /\ pc[r] = "gen_update"
    /\ ~ReadLocked
    /\ IF loc[r].user.tier = "Basic"
       THEN /\ ~WriteLocked(r)
            /\ users' = [users EXCEPT ![loc[r].user.id].daily_generations_left = @ - 1]
       ELSE UNCHANGED users
    /\ pc' = [pc EXCEPT ![r] = "gen_synth"]
    /\ UNCHANGED <<loc, last>>
    /\ UNCHANGED <<voices, audio_history, payments, today, leak, rate>>

(* Mutant: the generation count is updated before the voice is looked up *)
generate_speech_update_charge_first(r) ==
    /\ pc[r] = "gen_update"
    /\ ~ReadLocked
    /\ IF loc[r].user.tier = "Basic"
       THEN /\ ~WriteLocked(r)
            /\ users' = [users EXCEPT ![loc[r].user.id].daily_generations_left = @ - 1]
       ELSE UNCHANGED users
    /\ IF loc[r].voice_id \notin DOMAIN voices
       THEN Finish(r, HTTPException("generate", KeyOf(loc[r].user.id), 404,
                                   "Voice not found"))
       ELSE /\ pc' = [pc EXCEPT ![r] = "gen_synth"]
            /\ UNCHANGED <<loc, last>>
    /\ UNCHANGED <<voices, audio_history, payments, today, leak, rate>>

(* lines 314-325: look the voice up, then update the generation count *)
generate_speech_update(r) ==
    /\ pc[r] = "gen_update"
    /\ ~ReadLocked
    /\ IF loc[r].voice_id \notin DOMAIN voices
       THEN /\ Finish(r, HTTPException("generate", KeyOf(loc[r].user.id), 404,
                                        "Voice not found"))
            /\ UNCHANGED users
       ELSE /\ IF loc[r].user.tier = "Basic"
               THEN /\ ~WriteLocked(r)
                    /\ users' = [users EXCEPT ![loc[r].user.id].daily_generations_left = @ - 1]
               ELSE UNCHANGED users
            /\ pc' = [pc EXCEPT ![r] = "gen_synth"]
            /\ UNCHANGED <<loc, last>>
    /\ UNCHANGED <<voices, audio_history, payments, today, leak, rate>>

(* lines 327-364 and 382-384: the engine's rate is read and set to rate    *)
(* times speed (340-341); the engine writes the file and the rate is set   *)
(* back (361-364), or the engine raises and the handler answers 500 with   *)
(* the detail "Failed to generate speech: " and the text of the exception  *)
(* (left out here).  rate is what getProperty('rate') returns to the next  *)
(* request.  The engine is pyttsx3, a library: one whose setProperty acts  *)
(* at once has the rate back after line 364, one whose setProperty is      *)
(* queued until the next runAndWait() has run the command of 341 and not   *)
(* yet that of 364, and is left at rate * speed.  A call before line 341   *)
(* that raises (332-337, 340) leaves the rate as it was; one after it      *)
(* (341-361) leaves rate * speed, or the rate when the command of 341 was  *)
(* still in the queue.                                                     *)
generate_speech_synth(r, ok) ==
    /\ pc[r] = "gen_synth"
    /\ IF ok
       THEN /\ pc' = [pc EXCEPT ![r] = "gen_log"]
            /\ rate' \in {rate, rate * loc[r].settings.speed}
            /\ UNCHANGED <<loc, last>>
       ELSE /\ Finish(r, HTTPException("generate", KeyOf(loc[r].user.id), 500,
                                      "Failed to generate speech"))
            /\ rate' \in {rate, rate * loc[r].settings.speed}
    /\ UNCHANGED <<users, voices, audio_history, payments, today, leak>>

(* line 361: runAndWait() has no timeout; when the engine does not come    *)
(* back, the handler waits in the call and no statement of it runs again.  *)
generate_speech_hang(r) ==
    /\ pc[r] = "gen_synth"
    /\ pc' = [pc EXCEPT ![r] = "gen_hung"]
    /\ rate' = rate * loc[r].settings.speed
    /\ UNCHANGED <<users, voices, audio_history, payments, today, leak, loc, last>>

(* Mutant: the generation count is updated again when the row is logged *)
generate_speech_log_charges_again(r) ==
    /\ pc[r] = "gen_log"
    /\ ~WriteLocked(r)
    /\ audio_history' = Append(audio_history,
            [user_id |-> loc[r].user.id, text_input |-> loc[r].text,
             voice_id |-> loc[r].voice_id, settings |-> loc[r].settings])
    /\ users' = [users EXCEPT ![loc[r].user.id].daily_generations_left = @ - 1]
    /\ Finish(r, Response("generate", KeyOf(loc[r].user.id), 200, {Len(audio_history) + 1}))
    /\ UNCHANGED <<voices, payments, today, leak, rate>>

(* lines 367-380: log to history and return the file *)
generate_speech_log(r) ==
    /\ pc[r] = "gen_log"
    /\ ~WriteLocked(r)
    /\ audio_history' = Append(audio_history,
            [user_id |-> loc[r].user.id, text_input |-> loc[r].text,
             voice_id |-> loc[r].voice_id, settings |-> loc[r].settings])
    /\ Finish(r, Response("generate", KeyOf(loc[r].user.id), 200, {Len(audio_history) + 1}))
    /\ UNCHANGED <<users, voices, payments, today, leak, rate>>

----------------------------------------------------------------------------
(* Mutant: the tier of the caller is not checked *)
clone_voice_begin_no_tier_check(r, user_api_key) ==
    /\ pc[r] = "idle"
    /\ ~ReadLocked
    /\ LET auth == get_current_user_by_api_key(user_api_key)
       IN  IF auth.status # 200
           THEN Finish(r, HTTPException("clone", user_api_key, auth.status, auth.detail))
           ELSE /\ pc' = [pc EXCEPT ![r] = "clone_await"]
                /\ loc' = [loc EXCEPT ![r] = [IdleLoc EXCEPT !.user = auth.user]]
                /\ UNCHANGED last
    /\ UNCHANGED <<users, voices, audio_history, payments, today, leak, rate>>

(* POST /voice/clone, lines 395-397: authenticate, then the tier check *)
clone_voice_begin(r, user_api_key) ==
    /\ pc[r] = "idle"
    /\ ~ReadLocked
    /\ LET auth == get_current_user_by_api_key(user_api_key)
       IN  IF auth.status # 200
           THEN Finish(r, HTTPException("clone", user_api_key, auth.status, auth.detail))
           ELSE IF auth.user.tier \notin {"Premium", "Ultimate"}
           THEN Finish(r, HTTPException("clone", user_api_key, 403,
                                       "Voice cloning requires Premium or Ultimate tier."))
           ELSE /\ pc' = [pc EXCEPT ![r] = "clone_await"]
                /\ loc' = [loc EXCEPT ![r] = [IdleLoc EXCEPT !.user = auth.user]]
                /\ UNCHANGED last
    /\ UNCHANGED <<users, voices, audio_history, payments, today, leak, rate>>

(* Mutant: the INSERT leaves the user_id column out *)
clone_voice_insert_no_owner(r) ==
    /\ pc[r] = "clone_await"
    /\ ~WriteLocked(r)
    /\ voices' = Append(voices, [user_id |-> NULL, voice_type |-> "cloned"])
    /\ pc' = [pc EXCEPT ![r] = "clone_reply"]
    /\ loc' = [loc EXCEPT ![r].voice_id = Len(voices) + 1]
    /\ UNCHANGED <<users, audio_history, payments, today, leak, rate, last>>

(* lines 405-420: after the awaited read of the sample, the INSERT of the  *)
(* voice and its commit                                                    *)
clone_voice_insert(r) ==
    /\ pc[r] = "clone_await"
    /\ ~WriteLocked(r)
    /\ voices' = Append(voices, [user_id |-> loc[r].user.id, voice_type |-> "cloned"])
    /\ pc' = [pc EXCEPT ![r] = "clone_reply"]
    /\ loc' = [loc EXCEPT ![r].voice_id = Len(voices) + 1]
    /\ UNCHANGED <<users, audio_history, payments, today, leak, rate, last>>

(* lines 421-427: the new row is read back and returned *)
clone_voice_reply(r) ==
    /\ pc[r] = "clone_reply"
    /\ ~ReadLocked
    /\ Finish(r, Response("clone", KeyOf(loc[r].user.id), 200, {loc[r].voice_id}))
    /\ UNCHANGED <<users, voices, audio_history, payments, today, leak, rate>>

----------------------------------------------------------------------------
(* POST /subscribe *)
(* Mutant: a tier name that is not in the table gets the largest allowance *)
generations_map_unknown_is_top(tier) ==
    CASE tier = "Basic" -> 10
      [] tier = "Premium" -> 100
      [] OTHER -> 1000

generations_map(tier) ==
    CASE tier = "Basic" -> 10
      [] tier = "Premium" -> 100
      [] tier = "Ultimate" -> 1000
      [] OTHER -> 10

(* the price table, in cents *)
price_map(tier) ==
    CASE tier = "Basic" -> 0
      [] tier = "Premium" -> 999
      [] tier = "Ultimate" -> 2999
      [] OTHER -> 0

(* Mutant: the whole string is kept *)
Last4_whole(s) == s

(* s[-4:] *)
Last4(s) == SubSeq(s, IF Len(s) > 4 THEN Len(s) - 3 ELSE 1, Len(s))

(* payment_details.get('card_number', '0000')[-4:] *)
payment_method(details) ==
    Last4(IF details.present THEN details.card_number ELSE <<0, 0, 0, 0>>)

(* Mutant: the account is not looked up *)
handle_subscription_begin_no_lookup(r, user_id, tier, details) ==
    /\ pc[r] = "idle"
    /\ ~ReadLocked
    /\ pc' = [pc EXCEPT ![r] = "sub_update"]
    /\ loc' = [loc EXCEPT ![r] = [IdleLoc EXCEPT !.user.id = user_id,
                                    !.tier = tier, !.card = details]]
    /\ UNCHANGED <<users, voices, audio_history, payments, today, leak, rate, last>>

(* lines 440-444: the account is looked up by id *)
handle_subscription_begin(r, user_id, tier, details) ==
    /\ pc[r] = "idle"
    /\ ~ReadLocked
    /\ IF user_id \notin DOMAIN users
       THEN Finish(r, HTTPException("subscribe", user_id, 404, "User not found"))
       ELSE /\ pc' = [pc EXCEPT ![r] = "sub_update"]
            /\ loc' = [loc EXCEPT ![r] = [IdleLoc EXCEPT !.user.id = user_id,
                                            !.tier = tier, !.card = details]]
            /\ UNCHANGED last
    /\ UNCHANGED <<users, voices, audio_history, payments, today, leak, rate>>

(* Mutant: the new term is added to the expiry the account already has *)
handle_subscription_update_stacking(r) ==
    /\ pc[r] = "sub_update"
    /\ ~WriteLocked(r)
    /\ pc' = [pc EXCEPT ![r] = "sub_insert"]
    /\ loc' = [loc EXCEPT ![r].upd =
                [tier |-> loc[r].tier,
                 expiry |-> (IF users[loc[r].user.id].subscription_expiry = NULL
                             THEN today
                             ELSE users[loc[r].user.id].subscription_expiry) + TermDays,
                 left |-> generations_map(loc[r].tier)]]
    /\ UNCHANGED <<users, voices, audio_history, payments, today, leak, rate, last>>

(* Mutant: the UPDATE is committed on its own, before the INSERT *)
handle_subscription_update_autocommit(r) ==
    /\ pc[r] = "sub_update"
    /\ ~WriteLocked(r)
    /\ pc' = [pc EXCEPT ![r] = "sub_insert"]
    /\ loc' = [loc EXCEPT ![r].upd = [tier |-> loc[r].tier,
                                      expiry |-> today + TermDays,
                                      left |-> generations_map(loc[r].tier)]]
    /\ users' = [users EXCEPT ![loc[r].user.id] =
                    [@ EXCEPT !.subscription_tier = loc[r].tier,
                              !.subscription_expiry = today + TermDays,
                              !.daily_generations_left = generations_map(loc[r].tier)]]
    /\ UNCHANGED <<voices, audio_history, payments, today, leak, rate, last>>

(* lines 450-460: the UPDATE, executed inside the connection's transaction *)
handle_subscription_update(r) ==
    /\ pc[r] = "sub_update"
    /\ ~WriteLocked(r)
    /\ pc' = [pc EXCEPT ![r] = "sub_insert"]
    /\ loc' = [loc EXCEPT ![r].upd = [tier |-> loc[r].tier,
                                      expiry |-> today + TermDays,
                                      left |-> generations_map(loc[r].tier)]]
    /\ UNCHANGED <<users, voices, audio_history, payments, today, leak, rate, last>>

(* Mutant: transaction_id is not declared UNIQUE *)
handle_subscription_insert_no_unique(r, txn) ==
    /\ pc[r] = "sub_insert"
    /\ pc' = [pc EXCEPT ![r] = "sub_commit"]
    /\ loc' = [loc EXCEPT ![r].ins = [user_id |-> loc[r].user.id,
                                      tier |-> loc[r].tier,
                                      amount |-> price_map(loc[r].tier),
                                      payment_method |-> payment_method(loc[r].card),
                                      transaction_id |-> txn]]
    /\ UNCHANGED <<users, voices, audio_history, payments, today, leak, rate, last>>

(* lines 461-467: the INSERT into payments, in the same transaction; the   *)
(* UNIQUE constraint on transaction_id raises IntegrityError.              *)
handle_subscription_insert(r, txn) ==
    /\ pc[r] = "sub_insert"
    /\ IF \E p \in DOMAIN payments : payments[p].transaction_id = txn
       THEN /\ Finish(r, Response("subscribe", loc[r].user.id, 500, {}))
            /\ leak' = "reserved"
       ELSE /\ pc' = [pc EXCEPT ![r] = "sub_commit"]
            /\ loc' = [loc EXCEPT ![r].ins = [user_id |-> loc[r].user.id,
                                              tier |-> loc[r].tier,
                                              amount |-> price_map(loc[r].tier),
                                              payment_method |-> payment_method(loc[r].card),
                                              transaction_id |-> txn]]
            /\ UNCHANGED <<last, leak>>
    /\ UNCHANGED <<users, voices, audio_history, payments, today, rate>>

(* line 468: commit makes both writes visible together *)
handle_subscription_commit(r) ==
    /\ pc[r] = "sub_commit"
    /\ users' = [users EXCEPT ![loc[r].user.id] =
                    [@ EXCEPT !.subscription_tier = loc[r].upd.tier,
                              !.subscription_expiry = loc[r].upd.expiry,
                              !.daily_generations_left = loc[r].upd.left]]
    /\ payments' = Append(payments, loc[r].ins)
    /\ pc' = [pc EXCEPT ![r] = "sub_reply"]
    /\ UNCHANGED <<voices, audio_history, today, leak, rate, loc, last>>

(* lines 469-472: the account is read back and returned *)
handle_subscription_reply(r) ==
    /\ pc[r] = "sub_reply"
    /\ ~ReadLocked
    /\ Finish(r, Response("subscribe", loc[r].user.id, 200, {loc[r].user.id}))
    /\ UNCHANGED <<users, voices, audio_history, payments, today, leak, rate>>

----------------------------------------------------------------------------
(* Mutant: the rows are not selected by account *)
get_user_history_query_all(user_id) ==
    {h \in DOMAIN audio_history : audio_history[h].voice_id \in DOMAIN voices}

(* lines 479-487: the history rows of the account, joined with their voice *)
get_user_history_query(user_id) ==
    {h \in DOMAIN audio_history :
        /\ audio_history[h].voice_id \in DOMAIN voices
        /\ audio_history[h].user_id = user_id}

(* Mutant: the account is looked up without the check of the limit *)
get_user_history_no_limit(r, user_api_key) ==
    /\ pc[r] = "idle"
    /\ ~ReadLocked
    /\ LET ids == {i \in DOMAIN users : users[i].api_key = user_api_key}
       IN  IF ids = {}
           THEN Finish(r, HTTPException("history", user_api_key, 401, "Invalid API Key"))
           ELSE /\ pc' = [pc EXCEPT ![r] = "hist_query"]
                /\ loc' = [loc EXCEPT ![r] =
                              [IdleLoc EXCEPT !.user.id = CHOOSE i \in ids : TRUE]]
                /\ UNCHANGED last
    /\ UNCHANGED <<users, voices, audio_history, payments, today, leak, rate>>

(* GET /user/history/{user_api_key}, line 477: authenticate and check the  *)
(* limit, on a connection that is closed at once                           *)
get_user_history(r, user_api_key) ==
    /\ pc[r] = "idle"
    /\ ~ReadLocked
    /\ LET auth == get_current_user_by_api_key(user_api_key)
       IN  IF auth.status # 200
           THEN Finish(r, HTTPException("history", user_api_key, auth.status, auth.detail))
           ELSE /\ pc' = [pc EXCEPT ![r] = "hist_query"]
                /\ loc' = [loc EXCEPT ![r] = [IdleLoc EXCEPT !.user = auth.user]]
                /\ UNCHANGED last
    /\ UNCHANGED <<users, voices, audio_history, payments, today, leak, rate>>

(* lines 478-489: the rows are read on a second connection and returned *)
get_user_history_rows(r) ==
    /\ pc[r] = "hist_query"
    /\ ~ReadLocked
    /\ Finish(r, Response("history", KeyOf(loc[r].user.id), 200,
                          get_user_history_query(loc[r].user.id)))
    /\ UNCHANGED <<users, voices, audio_history, payments, today, leak, rate>>

----------------------------------------------------------------------------
(* A statement of a handler under way raises (sqlite3.OperationalError:    *)
(* the file is locked or unavailable): the handler ends with 500, and what *)
(* its connection had not committed is not in the tables; what it had      *)
(* committed stays.                                                        *)
OpOf(r) ==
    CASE pc[r] \in {"gen_update", "gen_log"} -> "generate"
      [] pc[r] \in {"sub_update", "sub_insert", "sub_commit", "sub_reply"} -> "subscribe"
      [] pc[r] = "reg_reply" -> "register"
      [] pc[r] = "hist_query" -> "history"
      [] OTHER -> "clone"

ArgOf(r) ==
    CASE OpOf(r) = "subscribe" -> loc[r].user.id
      [] OpOf(r) = "register" -> NULL
      [] OTHER -> KeyOf(loc[r].user.id)

(* The try blocks of generate_speech (327-384) and clone_voice (414-431)   *)
(* catch the exception and put its text after the detail given here; the   *)
(* statements outside them (404-405, 410 and 413 of clone_voice, 313-325   *)
(* of generate_speech) and the other handlers let it through.              *)
DetailsOf(r) ==
    CASE pc[r] = "gen_log" -> {"Failed to generate speech"}
      [] pc[r] = "clone_await" -> {NoText, "Failed to save cloned voice"}
      [] pc[r] = "clone_reply" -> {"Failed to save cloned voice"}
      [] OTHER -> {NoText}

(* register_user and clone_voice close their connection in a finally.      *)
(* handle_subscription and generate_speech do not: a statement that raises *)
(* leaves the connection open, with the lock it holds.  After the UPDATE   *)
(* of 457 that is the write lock; after a commit that failed (323, 377,    *)
(* 468) it is the pending lock.  A statement that failed before the        *)
(* connection wrote (315, 322, 373, 457, 469) leaves no lock.              *)
LeaksOf(r) ==
    CASE pc[r] = "sub_insert" -> {"reserved"}
      [] pc[r] = "sub_commit" -> {"pending"}
      [] /\ pc[r] = "gen_update"
         /\ loc[r].voice_id \in DOMAIN voices
         /\ loc[r].user.tier = "Basic"
         /\ ~WriteLocked(r) -> {leak, "pending"}
      [] pc[r] = "gen_log" /\ ~WriteLocked(r) -> {leak, "pending"}
      [] OTHER -> {leak}

store_failure(r) ==
    /\ pc[r] \notin {"idle", "gen_synth", "gen_hung"}
    /\ \E d \in DetailsOf(r) : Finish(r, HTTPException(OpOf(r), ArgOf(r), 500, d))
    /\ leak' \in LeaksOf(r)
    /\ UNCHANGED <<users, voices, audio_history, payments, today, rate>>

(* sqlite waits five seconds for a lock (the default timeout of connect,   *)
(* line 55) and then raises "database is locked": the next statement of    *)
(* the handler is one that the lock of another connection refuses.         *)
Refused(r) ==
    CASE pc[r] \in {"reg_reply", "hist_query", "clone_reply", "sub_reply"} -> ReadLocked
      [] pc[r] = "gen_update" ->
            \/ ReadLocked
            \/ /\ loc[r].voice_id \in DOMAIN voices
               /\ loc[r].user.tier = "Basic"
               /\ WriteLocked(r)
      [] pc[r] \in {"gen_log", "clone_await", "sub_update"} -> WriteLocked(r)
      [] OTHER -> FALSE

(* the first statement of register_user is a write, that of the other      *)
(* handlers a read                                                         *)
RefusedArrival(r, op) == IF op = "register" THEN WriteLocked(r) ELSE ReadLocked

(* The first statement of a handler raises: 500, and nothing has changed *)
OperationalError(r, op, arg) ==
    /\ pc[r] = "idle"
    /\ Finish(r, Response(op, arg, 500, {}))
    /\ UNCHANGED <<users, voices, audio_history, payments, today, leak, rate>>

----------------------------------------------------------------------------
(* What the clients and the environment do in an exploration: the values  *)
(* the requests carry, whether the engine can fail, the statements at      *)
(* which the store can fail (of a handler under way, and the first one of  *)
(* a handler), and how many rows the tables may grow to.                   *)
AllFailures == {"gen_update", "gen_log", "sub_update", "sub_insert", "sub_commit",
                "sub_reply", "clone_await", "clone_reply", "reg_reply", "hist_query"}
Handlers == {"register", "login", "voices", "history", "generate", "clone", "subscribe"}
OneSetting == {[speed |-> 1, pitch |-> 1, emotion |-> "neutral"]}
MissingVoice == NumPresets + MaxCloned + 1

(* Two accounts, the catalog and registration *)
EnvSpec ==
    [names |-> Usernames, emails |-> Emails, passwords |-> {"pw"}, tiers |-> {"Premium"},
     cards |-> {NoCard}, settings |-> OneSetting, voice_ids |-> {1, MissingVoice},
     user_ids |-> {1, 2}, engine |-> {TRUE},
     failures |-> AllFailures \ {"gen_update", "gen_log"},
     arrivals |-> {"register", "voices", "history"},
     history |-> MaxHistory, payments |-> MaxPayments, cloned |-> MaxCloned]

(* One account that spends its allowance; the engine and the store can fail *)
EnvQuota ==
    [names |-> {"ann"}, emails |-> {"a@x"}, passwords |-> {"pw"}, tiers |-> {"Basic", "Premium", "Ultimate"},
     cards |-> {NoCard}, settings |-> OneSetting, voice_ids |-> {1, MissingVoice},
     user_ids |-> {1}, engine |-> BOOLEAN,
     failures |-> AllFailures, arrivals |-> Handlers,
     history |-> QuotaHistory, payments |-> MaxPayments, cloned |-> MaxCloned]

(* One account that changes its subscription again and again *)
EnvBilling ==
    [names |-> {"ann"}, emails |-> {"a@x"}, passwords |-> {"pw"}, tiers |-> TierNames,
     cards |-> {LongCard}, settings |-> OneSetting, voice_ids |-> {1, MissingVoice},
     user_ids |-> {1, 2}, engine |-> {TRUE},
     failures |-> AllFailures \ {"gen_update", "gen_log"},
     arrivals |-> {"subscribe"},
     history |-> MaxHistory, payments |-> BillingPayments, cloned |-> MaxCloned]

(* One account and an engine that does not fail: the scenario of a fresh   *)
(* account that spends its ten generations and then buys Ultimate.         *)
EnvScenario ==
    [EnvQuota EXCEPT !.engine = {TRUE}, !.tiers = {"Ultimate"}, !.voice_ids = {1},
                     !.failures = AllFailures \ {"gen_update", "gen_log"},
                     !.arrivals = {"generate"}]

(* One account that pays with every kind of payment details *)
EnvCards ==
    [EnvBilling EXCEPT !.cards = Cards, !.tiers = {"Premium"}, !.user_ids = {1},
                       !.payments = MaxPayments]

(* One account that renews Basic or buys Premium, over more than one day *)
EnvRenew ==
    [EnvQuota EXCEPT !.tiers = {"Basic", "Premium"}, !.engine = {TRUE}, !.voice_ids = {1},
                     !.failures = {"sub_insert"}, !.arrivals = {"subscribe"}]

(* Two accounts, and generate requests that name the first cloned voice *)
EnvPrivate == [EnvSpec EXCEPT !.voice_ids = {NumPresets + 1}]

(* One account that spends its allowance, or buys Premium, and lets the     *)
(* subscription run out                                                    *)
EnvExpiry == [EnvRenew EXCEPT !.tiers = {"Premium"}]

(* One paying account that asks for any speed; the engine can fail *)
EnvEngine ==
    [EnvQuota EXCEPT !.tiers = {"Premium"}, !.settings = Settings, !.voice_ids = {1},
                     !.history = MaxHistory, !.failures = {"gen_log"},
                     !.arrivals = {"generate"}]

InFlight(pcs) == Cardinality({q \in Reqs : pc[q] \in pcs})
RoomForHistory(env) == Len(audio_history) + InFlight({"gen_log"}) < env.history
RoomForPayment(env) ==
    Len(payments) + InFlight({"sub_update", "sub_insert", "sub_commit"}) < env.payments
RoomForClone(env) ==
    Cardinality({v \in DOMAIN voices : voices[v].voice_type = "cloned"})
        + InFlight({"clone_await"}) < env.cloned

(* Mutant: the handlers are declared with def, and the framework runs them *)
(* on the threads of a pool                                                *)
EventLoop_thread_pool(r) == TRUE

(* The server of the program: uvicorn runs every handler on one event      *)
(* loop, so a handler runs from one await to the next without another      *)
(* handler in between; the only await of the handlers is in clone_voice.   *)
EventLoop(r) == \A q \in Reqs \ {r} : pc[q] \in {"idle", "clone_await"}

Turn(r, env) == EventLoop(r)

(* A request that arrives is given the first request slot that is free *)
Accept(r, env) ==
    /\ Turn(r, env)
    /\ pc[r] = "idle"
    /\ \A q \in Reqs : q < r => pc[q] # "idle"

Register(r, env) ==
    /\ Accept(r, env)
    /\ \E u \in env.names, e \in env.emails, p \in env.passwords,
          k \in Fresh({users[i].api_key : i \in DOMAIN users}) :
            register_user(r, u, e, p, k)

RegisterReply(r, env) == Turn(r, env) /\ register_user_reply(r)

Login(r, env) ==
    /\ Accept(r, env)
    /\ \E e \in env.emails, p \in Passwords : login_user(r, e, p)

History(r, env) ==
    /\ Accept(r, env)
    /\ \E k \in Uuids : get_user_history(r, k)

HistoryRows(r, env) == Turn(r, env) /\ get_user_history_rows(r)

ListVoices(r, env) ==
    /\ Accept(r, env)
    /\ \E k \in Uuids \cup {NULL} : list_voices(r, k)

GenerateBegin(r, env) ==
    /\ Accept(r, env)
    /\ \E k \in Uuids, v \in env.voice_ids, t \in Texts, s \in env.settings :
            generate_speech_begin(r, k, v, t, s)

GenerateUpdate(r, env) == Turn(r, env) /\ generate_speech_update(r)

GenerateSynth(r, env) ==
    /\ Turn(r, env)
    /\ \E ok \in env.engine :
        /\ ok => RoomForHistory(env)
        /\ generate_speech_synth(r, ok)
        /\ rate' <= MaxRate

GenerateHang(r, env) ==
    /\ Turn(r, env)
    /\ rate * loc[r].settings.speed <= MaxRate
    /\ generate_speech_hang(r)

GenerateLog(r, env) == Turn(r, env) /\ generate_speech_log(r)

CloneBegin(r, env) ==
    /\ Accept(r, env)
    /\ RoomForClone(env)
    /\ \E k \in Uuids : clone_voice_begin(r, k)

CloneInsert(r, env) == Turn(r, env) /\ clone_voice_insert(r)

CloneReply(r, env) == Turn(r, env) /\ clone_voice_reply(r)

SubscribeBegin(r, env) ==
    /\ Accept(r, env)
    /\ RoomForPayment(env)
    /\ \E id \in env.user_ids, t \in env.tiers, c \in env.cards :
            handle_subscription_begin(r, id, t, c)

SubscribeUpdate(r, env) == Turn(r, env) /\ handle_subscription_update(r)

SubscribeInsert(r, env) ==
    /\ Turn(r, env)
    /\ \E k \in Fresh({payments[p].transaction_id : p \in DOMAIN payments}) :
            handle_subscription_insert(r, k)

SubscribeCommit(r, env) == Turn(r, env) /\ handle_subscription_commit(r)

SubscribeReply(r, env) == Turn(r, env) /\ handle_subscription_reply(r)

ArgsOf(op, env) ==
    CASE op \in {"register", "login"} -> {NULL}
      [] op = "subscribe" -> env.user_ids
      [] op = "voices" -> Uuids \cup {NULL}
      [] OTHER -> Uuids

ArrivalFailure(r, env) ==
    /\ Accept(r, env)
    /\ \E op \in Handlers :
        /\ op \in env.arrivals \/ RefusedArrival(r, op)
        /\ \E arg \in ArgsOf(op, env) : OperationalError(r, op, arg)

StoreFailure(r, env) ==
    /\ Turn(r, env)
    /\ pc[r] \in env.failures \/ Refused(r)
    /\ store_failure(r)

Step(r, env) ==
    \/ Register(r, env)
    \/ RegisterReply(r, env)
    \/ Login(r, env)
    \/ History(r, env)
    \/ HistoryRows(r, env)
    \/ ListVoices(r, env)
    \/ GenerateBegin(r, env)
    \/ GenerateUpdate(r, env)
    \/ GenerateSynth(r, env)
    \/ GenerateHang(r, env)
    \/ GenerateLog(r, env)
    \/ CloneBegin(r, env)
    \/ CloneInsert(r, env)
    \/ CloneReply(r, env)
    \/ SubscribeBegin(r, env)
    \/ SubscribeUpdate(r, env)
    \/ SubscribeInsert(r, env)
    \/ SubscribeCommit(r, env)
    \/ SubscribeReply(r, env)
    \/ StoreFailure(r, env)
    \/ ArrivalFailure(r, env)

Serve(env) == \E r \in Reqs : Step(r, env)

Next == restart \/ collect \/ Serve(EnvSpec)
NextQuota == restart \/ collect \/ Serve(EnvQuota)
NextBilling == restart \/ collect \/ Tick \/ Serve(EnvBilling)
NextScenario == restart \/ collect \/ Serve(EnvScenario)
NextCards == restart \/ collect \/ Serve(EnvCards)
NextRenew == restart \/ collect \/ Tick \/ Serve(EnvRenew)
NextPrivate == restart \/ collect \/ Serve(EnvPrivate)
NextExpiry == restart \/ collect \/ Lapse \/ Serve(EnvExpiry)
NextEngine == restart \/ collect \/ Serve(EnvEngine)

Spec == Init /\ [][Next]_vars
SpecQuota == Init /\ [][NextQuota]_vars
SpecBilling == Init /\ [][NextBilling]_vars
SpecScenario == Init /\ [][NextScenario]_vars
SpecCards == Init /\ [][NextCards]_vars
SpecRenew == Init /\ [][NextRenew]_vars
SpecPrivate == Init /\ [][NextPrivate]_vars
SpecExpiry == Init /\ [][NextExpiry]_vars
SpecEngine == Init /\ [][NextEngine]_vars

----------------------------------------------------------------------------
(* Vocabulary of the properties *)
Accounts == DOMAIN users
Tier(i) == users[i].subscription_tier
Allowance(i) == users[i].daily_generations_left
Expiry(i) == users[i].subscription_expiry
AllIdle == \A r \in Reqs : pc[r] = "idle"
Presets == {v \in DOMAIN voices : voices[v].voice_type = "preset"}
OwnedBy(i) == {v \in DOMAIN voices : voices[v].user_id = i /\ voices[v].voice_type # "preset"}
PaymentsOf(i) == {p \in DOMAIN payments : payments[p].user_id = i}
Max(S) == CHOOSE x \in S : \A y \in S : y <= x

----------------------------------------------------------------------------
(* C1: for a Basic account, generate requests served one after another     *)
(* never take the allowance below 0; a generate request that arrives when  *)
(* the allowance is 0 is answered 403 and leaves the account as it is; a   *)
(* request that passed the check and found its voice takes exactly 1       *)
C1_BasicQuotaStopsAtZero ==
    /\ [](\A i \in Accounts : Tier(i) = "Basic" => Allowance(i) >= 0)
    /\ [][\A r \in Reqs, i \in Accounts :
            (/\ Tier(i) = "Basic"
             /\ Allowance(i) = 0
             /\ \E v \in VoiceIds \cup {MissingVoice}, t \in Texts, s \in Settings :
                    generate_speech_begin(r, KeyOf(i), v, t, s))
            => (/\ last' = HTTPException("generate", KeyOf(i), 403,
                                    "Daily generation limit reached for Basic tier.")
                /\ pc'[r] = "idle"
                /\ users' = users)]_vars
    /\ [][\A r \in Reqs :
            (/\ loc[r].user.tier = "Basic"
             /\ loc[r].voice_id \in DOMAIN voices
             /\ generate_speech_update(r))
            => users' = [users EXCEPT ![loc[r].user.id].daily_generations_left =
                            Allowance(loc[r].user.id) - 1]]_vars

(* C1 witness: a Basic account spent its allowance down to 0 and its next  *)
(* generate request was answered 403                                       *)
C1_Witness ==
    \E i \in Accounts :
        /\ Tier(i) = "Basic"
        /\ Allowance(i) = 0
        /\ last = HTTPException("generate", KeyOf(i), 403,
                                "Daily generation limit reached for Basic tier.")

----------------------------------------------------------------------------
(* C2: quota is consumed only after synthesis succeeded: when the engine   *)
(* raises inside a generate request, the request is answered 500, the      *)
(* caller's allowance is the one the request found, and the history is     *)
(* unchanged.  (The code updates the count before it calls the engine.)    *)
C2_NoConsumptionOnSynthesisFailure ==
    [][\A r \in Reqs :
        (pc[r] = "gen_synth" /\ generate_speech_synth(r, FALSE))
        => (/\ last'.status = 500
            /\ users'[loc[r].user.id].daily_generations_left = loc[r].user.left
            /\ audio_history' = audio_history)]_vars

----------------------------------------------------------------------------
(* C3: the generate requests of one Basic account never take its allowance *)
(* below 0: a request that was authorized subtracts from the allowance it  *)
(* read, because no other handler runs between its authorization (312)     *)
(* and its UPDATE (322), and it subtracts 1 once.                          *)
C3_AllowanceNeverNegative ==
    /\ \A i \in Accounts : Allowance(i) >= 0
    /\ \A r \in Reqs :
          pc[r] = "gen_update"
          => /\ loc[r].user.left = Allowance(loc[r].user.id)
             /\ loc[r].user.tier = Tier(loc[r].user.id)

(* C3 witness: after a generate request of a Basic account returned its    *)
(* file, the next request of the account read the allowance 1 and took it  *)
(* to 0                                                                    *)
C3_Witness ==
    \E i \in Accounts, r \in Reqs :
        /\ Tier(i) = "Basic"
        /\ Allowance(i) = 0
        /\ pc[r] = "gen_synth"
        /\ loc[r].user.id = i
        /\ loc[r].user.left = 1
        /\ last.op = "generate" /\ last.status = 200 /\ last.arg = KeyOf(i)

----------------------------------------------------------------------------
(* C4: an account on Premium or Ultimate is always authorized, and its     *)
(* allowance stays what the subscription set: no generate request of the   *)
(* account changes it                                                      *)
C4_PaidTiersUnlimited ==
    \A i \in Accounts :
        Tier(i) \in {"Premium", "Ultimate"}
        => /\ get_current_user_by_api_key(KeyOf(i)).status = 200
           /\ Allowance(i) = generations_map(Tier(i))

(* C4 witness: a generate request of a Premium account has just returned   *)
(* the file, it is in the history, and the allowance is still 100          *)
C4_Witness ==
    \E i \in Accounts :
        /\ Tier(i) = "Premium"
        /\ last.op = "generate" /\ last.status = 200 /\ last.arg = KeyOf(i)
        /\ \E h \in DOMAIN audio_history : audio_history[h].user_id = i
        /\ Len(audio_history) >= 2
        /\ Allowance(i) = 100

----------------------------------------------------------------------------
(* C5: a fresh account is Basic with 10 generations.  With an engine that  *)
(* does not fail, every generate request it makes before it subscribes     *)
(* succeeds and takes 1: after n of them the allowance is 10 - n, it is    *)
(* authorized while n < 10, and at n = 10 the request is refused with 403  *)
(* and the allowance stays 0.  Once it has changed to Ultimate it is       *)
(* authorized again and its allowance stays the same across requests.      *)
C5_FreshAccountScenario ==
    \A i \in Accounts :
        AllIdle =>
        /\ payments = <<>> =>
            /\ Tier(i) = "Basic"
            /\ Allowance(i) = DefaultGenerations - Len(audio_history)
            /\ get_current_user_by_api_key(KeyOf(i)).status =
                    IF Len(audio_history) < DefaultGenerations THEN 200 ELSE 403
        /\ payments # <<>> =>
            /\ Tier(i) = "Ultimate"
            /\ Allowance(i) = 1000
            /\ get_current_user_by_api_key(KeyOf(i)).status = 200

(* C5 witness: the account has an eleventh file in its history, which it   *)
(* can only have got after changing to Ultimate, and its allowance is the  *)
(* one the change of tier set                                              *)
C5_Witness ==
    /\ AllIdle
    /\ Len(audio_history) = DefaultGenerations + 1
    /\ Len(payments) = 1
    /\ \E i \in Accounts :
        /\ Tier(i) = "Ultimate"
        /\ last = Response("generate", KeyOf(i), 200, {DefaultGenerations + 1})
        /\ Allowance(i) = 1000

----------------------------------------------------------------------------
(* C6: a change of tier to Premium computes the allowance 100 and the      *)
(* expiry today + 30 days, whatever the account had before, and its commit *)
(* writes them to the account and appends exactly one payment of 9.99      *)
(* whose transaction id no stored payment has                              *)
C6_ChangeTierToPremium ==
    [][\A r \in Reqs :
        /\ (loc[r].tier = "Premium" /\ handle_subscription_update(r))
           => loc'[r].upd = [tier |-> "Premium", expiry |-> today + 30, left |-> 100]
        /\ (loc[r].tier = "Premium" /\ handle_subscription_commit(r))
           => /\ users'[loc[r].user.id].subscription_tier = "Premium"
              /\ users'[loc[r].user.id].daily_generations_left = 100
              /\ users'[loc[r].user.id].subscription_expiry = loc[r].upd.expiry
              /\ Len(payments') = Len(payments) + 1
              /\ SubSeq(payments', 1, Len(payments)) = payments
              /\ payments'[Len(payments')].user_id = loc[r].user.id
              /\ payments'[Len(payments')].amount = 999
              /\ \A p \in DOMAIN payments :
                    payments[p].transaction_id # payments'[Len(payments')].transaction_id]_vars

(* C6 witness: an account that was on Ultimate since day 0 has changed to  *)
(* Premium on day 1: its second payment is the Premium one, its allowance  *)
(* is 100 and its expiry is day 31                                         *)
C6_Witness ==
    /\ today = 1
    /\ Len(payments) = 2
    /\ payments[1].tier = "Ultimate" /\ payments[2].tier = "Premium"
    /\ payments[1].user_id = payments[2].user_id
    /\ last = Response("subscribe", payments[2].user_id, 200, {payments[2].user_id})
    /\ Allowance(payments[2].user_id) = 100
    /\ Expiry(payments[2].user_id) = 31

----------------------------------------------------------------------------
(* C7: in every state, what is committed of an account's subscription and  *)
(* its payments agree: an account without a payment row is as registration *)
(* left it (Basic, no expiry), and an account with payment rows has the    *)
(* tier of its latest payment row and an expiry                            *)
C7_ChangeTierAllOrNothing ==
    \A i \in Accounts :
        IF PaymentsOf(i) = {}
        THEN Tier(i) = "Basic" /\ Expiry(i) = NULL
        ELSE /\ Tier(i) = payments[Max(PaymentsOf(i))].tier
             /\ Expiry(i) # NULL
             /\ Tier(i) # "Basic" => Allowance(i) = generations_map(Tier(i))

(* C7 witness: a change of tier has executed its UPDATE and its INSERT and  *)
(* not yet committed; what is committed is the account on its previous     *)
(* paid tier with the one payment row of that tier                         *)
C7_Witness ==
    \E r \in Reqs :
        /\ pc[r] = "sub_commit"
        /\ loc[r].upd.tier = "Ultimate"
        /\ Tier(loc[r].user.id) = "Premium"
        /\ Len(payments) = 1
        /\ payments[1].user_id = loc[r].user.id
        /\ loc[r].ins.transaction_id # payments[1].transaction_id

----------------------------------------------------------------------------
(* C8: a registration whose username or email an account already has is   *)
(* answered 400 and changes no account; usernames, emails and api keys are *)
(* pairwise distinct in every state                                        *)
C8_RegisterConflict ==
    /\ [](\A i, j \in Accounts :
            i # j => /\ users[i].username # users[j].username
                     /\ users[i].email # users[j].email
                     /\ users[i].api_key # users[j].api_key)
    /\ [][\A r \in Reqs, u \in Usernames, e \in Emails, p \in EnvSpec.passwords, k \in Uuids :
            (/\ \E i \in Accounts : users[i].username = u \/ users[i].email = e
             /\ register_user(r, u, e, p, k))
            => (/\ last' = HTTPException("register", NULL, 400,
                                          "Username or email already exists")
                /\ users' = users)]_vars

(* C8 witness: with two accounts registered, a further registration was    *)
(* refused                                                                 *)
C8_Witness ==
    /\ Len(users) = 2
    /\ last.op = "register" /\ last.status = 400

----------------------------------------------------------------------------
(* C9: the voices that list_voices returns to a key that resolves to       *)
(* account A are the presets and the voices A owns, and no voice of        *)
(* another account                                                         *)
C9_ListVoicesOwnOnly ==
    [][\A r \in Reqs, a \in Accounts :
        list_voices(r, KeyOf(a))
        => /\ last'.status = 200
           /\ last'.body = Presets \cup OwnedBy(a)
           /\ \A b \in Accounts \ {a} : last'.body \cap OwnedBy(b) = {}]_vars

(* C9 witness: account A got the presets only while account B owns a       *)
(* cloned voice                                                            *)
C9_Witness ==
    \E a, b \in Accounts :
        /\ a # b
        /\ OwnedBy(b) # {}
        /\ last = Response("voices", KeyOf(a), 200, Presets)

----------------------------------------------------------------------------
(* C10: the voices that list_voices returns to no key, or to a key that    *)
(* resolves to no account, are exactly the seeded presets, with status 200 *)
C10_ListVoicesAnonymous ==
    [][\A r \in Reqs, k \in Uuids \cup {NULL} :
        ((\A a \in Accounts : KeyOf(a) # k) /\ list_voices(r, k))
        => /\ last'.status = 200
           /\ last'.body = 1..NumPresets
           /\ \A v \in last'.body : voices[v].user_id = NULL]_vars

(* C10 witness: a key that no account has got the five presets while the   *)
(* store holds a cloned voice                                              *)
C10_Witness ==
    /\ last.op = "voices" /\ last.status = 200
    /\ last.arg # NULL
    /\ \A a \in Accounts : KeyOf(a) # last.arg
    /\ \E v \in DOMAIN voices : voices[v].voice_type = "cloned"
    /\ last.body = 1..NumPresets

----------------------------------------------------------------------------
(* C11 as claimed: a clone request of a Basic account, whatever allowance   *)
(* it has left, is refused with the tier-restriction error and leaves the  *)
(* voices table as it is.  (With no generation left the request is refused *)
(* by the authorization, with the error of the daily limit.)               *)
C11_CloneByBasicTierError ==
    [][\A r \in Reqs, i \in Accounts :
        (Tier(i) = "Basic" /\ clone_voice_begin(r, KeyOf(i)))
        => (/\ last' = HTTPException("clone", KeyOf(i), 403,
                                "Voice cloning requires Premium or Ultimate tier.")
            /\ voices' = voices)]_vars

(* C11 amended: a clone request of a Basic account is refused with 403 and  *)
(* leaves the voices table as it is; the error is the tier restriction     *)
(* when the account has a generation left and the daily limit when it has  *)
(* none                                                                    *)
C11_CloneByBasicRefused ==
    [][\A r \in Reqs, i \in Accounts :
        (Tier(i) = "Basic" /\ clone_voice_begin(r, KeyOf(i)))
        => (/\ last' = HTTPException("clone", KeyOf(i), 403,
                            IF Allowance(i) > 0
                            THEN "Voice cloning requires Premium or Ultimate tier."
                            ELSE "Daily generation limit reached for Basic tier.")
            /\ pc'[r] = "idle"
            /\ voices' = voices)]_vars

(* C11 witness: a Basic account that still has generations left was        *)
(* refused a clone with the tier restriction, and the store holds the      *)
(* presets only                                                            *)
C11_Witness ==
    \E i \in Accounts :
        /\ Tier(i) = "Basic"
        /\ Allowance(i) = 3
        /\ last = HTTPException("clone", KeyOf(i), 403,
                                "Voice cloning requires Premium or Ultimate tier.")
        /\ DOMAIN voices = Presets

----------------------------------------------------------------------------
(* C12: in every state the tier of every account is Basic, Premium or      *)
(* Ultimate.  (The tier name of a subscribe request is written to the      *)
(* account as it came.)                                                    *)
C12_TierInKnownSet ==
    \A i \in Accounts : Tier(i) \in {"Basic", "Premium", "Ultimate"}

----------------------------------------------------------------------------
(* C13: whatever tier name a subscribe request carries, its commit writes  *)
(* the allowance 10 for Basic, 100 for Premium, 1000 for Ultimate and 10   *)
(* for any other name, and the payment row it appends has the amount 0.00  *)
(* for Basic, 9.99 for Premium, 29.99 for Ultimate and 0 for any other     *)
(* name                                                                    *)
C13_AllowanceAndPriceTables ==
    [][\A r \in Reqs :
        handle_subscription_commit(r)
        => LET t == loc[r].tier
               a == users'[loc[r].user.id].daily_generations_left
               p == payments'[Len(payments')]
           IN  /\ p.tier = t
               /\ t = "Basic" => (a = 10 /\ p.amount = 0)
               /\ t = "Premium" => (a = 100 /\ p.amount = 999)
               /\ t = "Ultimate" => (a = 1000 /\ p.amount = 2999)
               /\ t \notin {"Basic", "Premium", "Ultimate"} => (a = 10 /\ p.amount = 0)]_vars

(* C13 witness: an account bought Ultimate for 29.99 and then a tier named *)
(* Gold for 0, and has 10 generations                                      *)
C13_Witness ==
    /\ Len(payments) = 2
    /\ payments[1].tier = "Ultimate" /\ payments[1].amount = 2999
    /\ payments[2].tier = "Gold" /\ payments[2].amount = 0
    /\ payments[1].user_id = payments[2].user_id
    /\ Tier(payments[2].user_id) = "Gold"
    /\ Allowance(payments[2].user_id) = 10

----------------------------------------------------------------------------
(* C14: while a generate request is inside the synthesis call, the server  *)
(* can take and answer a request of another account: a listing of the      *)
(* voices or the start of another generate request.  (The handler is a     *)
(* coroutine of the one event loop and the engine call in it blocks.)      *)
C14_SynthesisDoesNotBlock ==
    \A r \in Reqs :
        (pc[r] = "gen_synth" /\ \E q \in Reqs : pc[q] = "idle")
        => /\ ENABLED (\E q \in Reqs \ {r} : ListVoices(q, EnvSpec))
           /\ ENABLED (\E q \in Reqs \ {r} : GenerateBegin(q, EnvSpec))

----------------------------------------------------------------------------
(* C15: a generate request whose synthesis does not complete still ends:   *)
(* it has a step to take (the timeout), and the allowance of its account   *)
(* is the one the request found.  (Nothing bounds the wait for the engine, *)
(* and the allowance was updated before the engine was called.)            *)
C15_SynthesisTimeout ==
    \A r \in Reqs :
        pc[r] = "gen_hung"
        => /\ ENABLED Step(r, EnvQuota)
           /\ Allowance(loc[r].user.id) = loc[r].user.left

----------------------------------------------------------------------------
(* C16: a generate request that is refused before synthesis, with 401 for  *)
(* a key that no account has, with 403 for a Basic account with no         *)
(* generation left, or with 404 for a voice id that does not exist,        *)
(* changes no account and appends nothing to the history                   *)
C16_RefusedBeforeSynthesis ==
    [][\A r \in Reqs :
        /\ \A k \in Uuids, v \in EnvQuota.voice_ids, t \in Texts, s \in EnvQuota.settings :
              (/\ generate_speech_begin(r, k, v, t, s)
               /\ \/ \A i \in Accounts : KeyOf(i) # k
                  \/ \E i \in Accounts : KeyOf(i) = k /\ Tier(i) = "Basic" /\ Allowance(i) = 0)
              => /\ pc'[r] = "idle"
                 /\ last'.op = "generate" /\ last'.arg = k
                 /\ last'.status = IF \A i \in Accounts : KeyOf(i) # k THEN 401 ELSE 403
                 /\ users' = users /\ audio_history' = audio_history
        /\ (loc[r].voice_id \notin DOMAIN voices /\ generate_speech_update(r))
              => /\ pc'[r] = "idle"
                 /\ last'.op = "generate" /\ last'.status = 404
                 /\ users' = users /\ audio_history' = audio_history]_vars

(* C16 witness: a fresh Basic account asked for a voice that does not      *)
(* exist: it was answered 404 and still has its 10 generations and an      *)
(* empty history                                                           *)
C16_Witness ==
    \E i \in Accounts :
        /\ last = HTTPException("generate", KeyOf(i), 404, "Voice not found")
        /\ Tier(i) = "Basic"
        /\ Allowance(i) = DefaultGenerations
        /\ payments = <<>>
        /\ audio_history = <<>>

----------------------------------------------------------------------------
(* C17: in every state every reference resolves: the owner of a voice that *)
(* is not a preset is an account, the account and the voice of a history   *)
(* row exist, and the account of a payment row exists                      *)
C17_ReferencesResolve ==
    /\ \A v \in DOMAIN voices :
          voices[v].voice_type # "preset" => voices[v].user_id \in Accounts
    /\ \A h \in DOMAIN audio_history :
          /\ audio_history[h].user_id \in Accounts
          /\ audio_history[h].voice_id \in DOMAIN voices
    /\ \A p \in DOMAIN payments : payments[p].user_id \in Accounts

(* C17 witness: the second account owns a cloned voice, a history row and  *)
(* a payment row, and a request for a voice that is not in the store was   *)
(* answered 404                                                            *)
C17_Witness ==
    /\ Len(users) = 2
    /\ \E v \in DOMAIN voices : voices[v].user_id = 2
    /\ \E h \in DOMAIN audio_history : audio_history[h].user_id = 2
    /\ \E p \in DOMAIN payments : payments[p].user_id = 2
    /\ last.op = "generate" /\ last.status = 404

----------------------------------------------------------------------------
(* C18: in every state a voice is a preset exactly when it has no owner,   *)
(* and no step creates a preset, removes one or changes one: the presets   *)
(* are the rows the bootstrap seeded                                       *)
C18_PresetsUnowned ==
    /\ [](\A v \in DOMAIN voices :
            (voices[v].voice_type = "preset") <=> (voices[v].user_id = NULL))
    /\ [](Presets = 1..NumPresets)
    /\ [][/\ Presets' = Presets
          /\ \A v \in Presets : voices'[v] = voices[v]]_vars

(* C18 witness: a clone request has added a sixth voice, owned by the      *)
(* account that asked for it, to the five presets                          *)
C18_Witness ==
    /\ Len(voices) = NumPresets + 1
    /\ voices[NumPresets + 1].voice_type = "cloned"
    /\ voices[NumPresets + 1].user_id \in Accounts
    /\ last = Response("clone", KeyOf(voices[NumPresets + 1].user_id), 200, {NumPresets + 1})

----------------------------------------------------------------------------
(* C19: the history and the payments are append-only: every row that       *)
(* exists before a step exists after it, with the same fields; and no two  *)
(* payment rows have the same transaction id                               *)
C19_AppendOnly ==
    /\ [][/\ Len(audio_history') >= Len(audio_history)
          /\ SubSeq(audio_history', 1, Len(audio_history)) = audio_history
          /\ Len(payments') >= Len(payments)
          /\ SubSeq(payments', 1, Len(payments)) = payments]_vars
    /\ [](\A p, q \in DOMAIN payments :
            p # q => payments[p].transaction_id # payments[q].transaction_id)

(* C19 witness: with a history row and a payment row in the store, a       *)
(* second change of tier has been committed; the two payment rows have     *)
(* different transaction ids                                               *)
C19_Witness ==
    /\ Len(audio_history) = 1
    /\ Len(payments) = 2
    /\ payments[1].transaction_id # payments[2].transaction_id
    /\ last.op = "subscribe" /\ last.status = 200

----------------------------------------------------------------------------
(* C20: the payment row a change of tier appends holds, of the payment     *)
(* details of the request, the last 4 characters of the card number (all   *)
(* of a shorter number, 0000 when the details have no card number) and     *)
(* nothing else: its other columns are the account, the tier, the amount   *)
(* and the transaction id; the commit writes nothing to the voices and the *)
(* history, and of the account only tier, expiry and allowance             *)
C20_OnlyLastFourKept ==
    [][\A r \in Reqs :
        handle_subscription_commit(r)
        => LET card == loc[r].card
               row == payments'[Len(payments')]
               pm == row.payment_method
               n == Len(card.card_number)
           IN  /\ Len(payments') = Len(payments) + 1
               /\ DOMAIN row = {"user_id", "tier", "amount", "payment_method",
                                "transaction_id"}
               /\ Len(pm) <= 4
               /\ ~card.present => pm = <<0, 0, 0, 0>>
               /\ card.present =>
                    /\ Len(pm) = IF n < 4 THEN n ELSE 4
                    /\ \A k \in 1..Len(pm) : pm[k] = card.card_number[n - Len(pm) + k]
               /\ row.user_id = loc[r].user.id /\ row.tier = loc[r].tier
               /\ row.amount \in {0, 999, 2999} /\ row.transaction_id \in Uuids
               /\ voices' = voices /\ audio_history' = audio_history
               /\ \A i \in Accounts :
                    /\ users'[i].username = users[i].username
                    /\ users'[i].email = users[i].email
                    /\ users'[i].api_key = users[i].api_key]_vars

(* C20 witness: a change of tier paid with the card 411123 has been        *)
(* committed and its payment row holds 1123                                *)
C20_Witness ==
    /\ Len(payments) = 1
    /\ payments[1].payment_method = <<1, 1, 2, 3>>
    /\ last.op = "subscribe" /\ last.status = 200

----------------------------------------------------------------------------
(* C21: a subscribe request for an account id that no account has is       *)
(* answered 404 and leaves the accounts and the payments as they are       *)
C21_ChangeTierNotFound ==
    [][\A r \in Reqs, id \in {1, 2}, t \in TierNames, c \in EnvBilling.cards :
        (id \notin Accounts /\ handle_subscription_begin(r, id, t, c))
        => (/\ last' = HTTPException("subscribe", id, 404, "User not found")
            /\ pc'[r] = "idle"
            /\ users' = users
            /\ payments' = payments)]_vars

(* C21 witness: with one account that has a payment row, a subscribe       *)
(* request for the id 2 was answered 404                                   *)
C21_Witness ==
    /\ Len(users) = 1
    /\ Len(payments) = 1
    /\ last = HTTPException("subscribe", 2, 404, "User not found")

----------------------------------------------------------------------------
(* C22: init_db is idempotent: run on an empty store it seeds the five     *)
(* presets, and every later run, at every start of the script, leaves the  *)
(* voices, the accounts, the history and the payments as they are, so the  *)
(* store holds one copy of the presets in every state                      *)
C22_BootstrapIdempotent ==
    /\ Len(init_db(<<>>)) = NumPresets
    /\ [](Cardinality(Presets) = NumPresets)
    /\ [](init_db(voices) = voices)
    /\ [][restart => /\ voices' = voices
                     /\ users' = users
                     /\ audio_history' = audio_history
                     /\ payments' = payments]_vars

(* C22 witness: the script has been started again on a store that holds    *)
(* an account, a cloned voice, a history row and a payment row             *)
C22_Witness ==
    /\ last = NoResponse
    /\ users # <<>>
    /\ Len(voices) = NumPresets + 1
    /\ voices[NumPresets + 1].voice_type = "cloned"
    /\ audio_history # <<>>
    /\ payments # <<>>

----------------------------------------------------------------------------
(* C23: while a generate request of a Basic account runs, the allowance of *)
(* the account is the one the request found or 1 less; no step lowers an   *)
(* allowance by more than 1; and the step that returns the file leaves the *)
(* allowance exactly 1 below the one the request found and appends exactly *)
(* one history row, with the account, the voice id, the text and the       *)
(* settings of the request                                                 *)
C23_OneDecrementOneRecord ==
    /\ [](\A r \in Reqs :
            (pc[r] \in {"gen_update", "gen_synth", "gen_log"} /\ loc[r].user.tier = "Basic")
            => Allowance(loc[r].user.id) \in {loc[r].user.left, loc[r].user.left - 1})
    /\ [][\A i \in Accounts :
            (Tier(i) = "Basic" /\ ~\E r \in Reqs : pc[r] = "sub_commit")
            => users'[i].daily_generations_left \in {Allowance(i), Allowance(i) - 1}]_vars
    /\ [][\A r \in Reqs :
            (loc[r].user.tier = "Basic" /\ generate_speech_log(r))
            => /\ last'.status = 200
               /\ users'[loc[r].user.id].daily_generations_left = loc[r].user.left - 1
               /\ audio_history' = Append(audio_history,
                        [user_id |-> loc[r].user.id, text_input |-> loc[r].text,
                         voice_id |-> loc[r].voice_id, settings |-> loc[r].settings])]_vars

(* C23 witness: the first generate request of a fresh Basic account        *)
(* returned the file: the allowance is 9 and the history is the one row of *)
(* the request                                                             *)
C23_Witness ==
    /\ Len(users) = 1
    /\ Tier(1) = "Basic" /\ Allowance(1) = DefaultGenerations - 1
    /\ payments = <<>>
    /\ last = Response("generate", KeyOf(1), 200, {1})
    /\ audio_history = <<[user_id |-> 1, text_input |-> "hello", voice_id |-> 1,
                          settings |-> [speed |-> 1, pitch |-> 1, emotion |-> "neutral"]]>>

----------------------------------------------------------------------------
(* C24: an account whose stored tier is none of Basic, Premium, Ultimate   *)
(* is always authorized, no generate request of it changes an allowance,   *)
(* and its clone requests are refused with the tier restriction and add no *)
(* voice                                                                   *)
C24_UnknownTierUnlimited ==
    /\ [](\A i \in Accounts :
            Tier(i) \notin {"Basic", "Premium", "Ultimate"}
            => get_current_user_by_api_key(KeyOf(i)).status = 200)
    /\ [][\A r \in Reqs :
            (/\ pc[r] \in {"gen_update", "gen_synth", "gen_log"}
             /\ loc[r].user.tier \notin {"Basic", "Premium", "Ultimate"}
             /\ generate_speech_update(r) \/ generate_speech_log(r)
                    \/ \E ok \in BOOLEAN : generate_speech_synth(r, ok))
            => users' = users]_vars
    /\ [][\A r \in Reqs, i \in Accounts :
            (Tier(i) \notin {"Basic", "Premium", "Ultimate"} /\ clone_voice_begin(r, KeyOf(i)))
            => (/\ last' = HTTPException("clone", KeyOf(i), 403,
                                    "Voice cloning requires Premium or Ultimate tier.")
                /\ voices' = voices)]_vars

(* C24 witness: an account on the tier Gold has just got a file: the row   *)
(* is in the history and the allowance is the 10 the change of tier set    *)
C24_Witness ==
    \E i \in Accounts :
        /\ Tier(i) = "Gold"
        /\ last = Response("generate", KeyOf(i), 200, {1})
        /\ audio_history[1].user_id = i
        /\ Allowance(i) = 10

----------------------------------------------------------------------------
(* C25: the allowance of a Basic account never goes up in a step that is   *)
(* not the commit of a change of tier; a new day changes no account; and   *)
(* the commit of a change to Basic of a Basic account with no generation   *)
(* left sets its allowance to 10 and appends a payment of 0                *)
C25_NoIncreaseButChangeTier ==
    /\ [][\A i \in Accounts :
            (Tier(i) = "Basic" /\ ~\E r \in Reqs : handle_subscription_commit(r))
            => users'[i].daily_generations_left <= Allowance(i)]_vars
    /\ [][today' # today => users' = users]_vars
    /\ [][\A r \in Reqs :
            (/\ pc[r] = "sub_commit"
             /\ loc[r].tier = "Basic"
             /\ Tier(loc[r].user.id) = "Basic"
             /\ Allowance(loc[r].user.id) = 0
             /\ handle_subscription_commit(r))
            => /\ users'[loc[r].user.id].daily_generations_left = 10
               /\ users'[loc[r].user.id].subscription_tier = "Basic"
               /\ Len(payments') = Len(payments) + 1
               /\ payments'[Len(payments')].amount = 0]_vars

(* C25 witness: a Basic account used its 10 generations, a day went by,    *)
(* and a change to Basic gave it 10 again for a payment of 0               *)
C25_Witness ==
    /\ today = 1
    /\ Len(audio_history) = DefaultGenerations
    /\ Len(payments) = 1
    /\ payments[1].tier = "Basic" /\ payments[1].amount = 0
    /\ Tier(1) = "Basic" /\ Allowance(1) = DefaultGenerations
    /\ last = Response("subscribe", 1, 200, {1})

----------------------------------------------------------------------------
(* C26: the voice of every history row is one that the account of the row  *)
(* gets from list_voices: a preset or a voice the account owns.  (The      *)
(* handler looks the voice up by its id alone.)                            *)
C26_HistoryVoiceVisible ==
    \A h \in DOMAIN audio_history :
        /\ audio_history[h].voice_id
                \in list_voices_query(KeyOf(audio_history[h].user_id))
        /\ audio_history[h].voice_id
                \in Presets \cup OwnedBy(audio_history[h].user_id)

----------------------------------------------------------------------------
Authorized(i) == ~(Tier(i) = "Basic" /\ Allowance(i) <= 0)

Expired(i) == Expiry(i) # NULL /\ Expiry(i) < today

(* C27: whether a generate or a clone request of an account gets past the   *)
(* authorization is decided by its tier and its allowance alone, whatever   *)
(* the subscription_expiry and the date; the passing of time changes no    *)
(* account, and the tier of an account changes in no step but the commit   *)
(* of a change of tier                                                     *)
C27_ExpiryNeverRead ==
    /\ [][\A r \in Reqs, i \in Accounts, v \in VoiceIds, t \in Texts, s \in Settings :
            generate_speech_begin(r, KeyOf(i), v, t, s)
            => (pc'[r] = "gen_update" <=> Authorized(i))]_vars
    /\ [][\A r \in Reqs, i \in Accounts :
            clone_voice_begin(r, KeyOf(i))
            => (pc'[r] = "clone_await"
                <=> (Authorized(i) /\ Tier(i) \in {"Premium", "Ultimate"}))]_vars
    /\ [][today' # today => users' = users]_vars
    /\ [][\A i \in Accounts :
            users'[i].subscription_tier # Tier(i)
            => \E r \in Reqs : handle_subscription_commit(r)]_vars

(* C27 witness: the Premium subscription of the account has run out, the   *)
(* account is still Premium, and its generate request is past the          *)
(* authorization                                                           *)
C27_Witness ==
    /\ 1 \in Accounts
    /\ Expired(1)
    /\ Tier(1) = "Premium"
    /\ \E r \in Reqs : pc[r] = "gen_update" /\ loc[r].user.id = 1
    /\ last = Response("subscribe", 1, 200, {1})

----------------------------------------------------------------------------
(* C28: a history request with the key of a Basic account that has no       *)
(* generation left is answered 403 with the message of the daily limit and *)
(* reads no row; with the key of any other account it goes on to read the  *)
(* rows, and is answered 200 with the history rows of the account; the     *)
(* store is left as it is                                                  *)
C28_HistoryQuotaGated ==
    [][\A r \in Reqs, i \in Accounts :
        /\ get_user_history(r, KeyOf(i))
           => /\ IF Tier(i) = "Basic" /\ Allowance(i) = 0
                 THEN /\ last' = HTTPException("history", KeyOf(i), 403,
                                        "Daily generation limit reached for Basic tier.")
                      /\ pc'[r] = "idle"
                 ELSE /\ pc'[r] = "hist_query"
                      /\ loc'[r].user.id = i
              /\ <<users, voices, audio_history, payments>>' =
                 <<users, voices, audio_history, payments>>
        /\ (loc[r].user.id = i /\ get_user_history_rows(r))
           => /\ last' = Response("history", KeyOf(i), 200,
                                  {h \in DOMAIN audio_history :
                                        audio_history[h].user_id = i})
              /\ pc'[r] = "idle"
              /\ <<users, voices, audio_history, payments>>' =
                 <<users, voices, audio_history, payments>>]_vars

(* C28 witness: a Basic account with 10 history rows and no generation     *)
(* left asked for its history and was answered 403                         *)
C28_Witness ==
    \E i \in Accounts :
        /\ Tier(i) = "Basic"
        /\ Allowance(i) = 0
        /\ Cardinality({h \in DOMAIN audio_history : audio_history[h].user_id = i})
           = DefaultGenerations
        /\ last = HTTPException("history", KeyOf(i), 403,
                                "Daily generation limit reached for Basic tier.")

----------------------------------------------------------------------------
(* C29: a history request with the key of an account reads the rows for   *)
(* that account, and its answer 200 holds all the history rows of the      *)
(* account and no row of another account                                   *)
C29_HistoryOwnRowsOnly ==
    [][\A r \in Reqs, i \in Accounts :
        /\ (get_user_history(r, KeyOf(i)) /\ pc'[r] = "hist_query")
           => loc'[r].user.id = i
        /\ (loc[r].user.id = i /\ get_user_history_rows(r))
           => /\ last'.op = "history" /\ last'.arg = KeyOf(i) /\ last'.status = 200
              /\ \A h \in last'.body : audio_history[h].user_id = i
              /\ \A h \in DOMAIN audio_history :
                    audio_history[h].user_id = i => h \in last'.body]_vars

(* C29 witness: the only history row is of one account, and the history    *)
(* request of another account was answered 200 with no row                 *)
C29_Witness ==
    \E i, j \in Accounts :
        /\ i # j
        /\ Len(audio_history) = 1
        /\ audio_history[1].user_id = i
        /\ last = Response("history", KeyOf(j), 200, {})

----------------------------------------------------------------------------
(* C30: when a generate request that reached the synthesis leaves it, with  *)
(* the file written or with an error of the engine, the rate of the engine *)
(* is the rate that the request found.  (The code sets the rate back with  *)
(* setProperty after runAndWait() returned, which an engine that queues    *)
(* its commands has not run when the request ends, and it does not set it  *)
(* back when the engine raised after line 341.)                            *)
C30_RateRestored ==
    [][\A r \in Reqs :
        (pc[r] = "gen_synth" /\ pc'[r] \in {"gen_log", "idle"}) => rate' = rate]_vars

====
